---- MODULE Spec2Model ----
(***************************************************************************)
(* Model of distcan/univariate.py: the NormalInverseGamma distribution     *)
(* object (construction, pdf, logpdf, mode, mean, rand) and the params    *)
(* property / construction of the scipy-backed wrapper classes.           *)
(***************************************************************************)
EXTENDS Integers, Sequences, FiniteSets, TLC

VARIABLES args, self, pc, n, i, out, log, op, inp, ret, w, wret

vars == <<args, self, pc, n, i, out, log, op, inp, ret, w, wret>>

(* ---------------------------------------------------------------------- *)
(* Bounds of the model                                                    *)
(* ---------------------------------------------------------------------- *)
MaxShape == 2
MaxScale == 1
MaxN == 2
MaxDraw == 1
MaxSig2 == 1
MaxParam == 3
MaxPoint == 5

\* the largest integer whose Gamma function fits a double (171! < 1.8e308)
GammaMax == 171

\* a shape whose Gamma function overflows
BigShape == GammaMax + 1

\* constructor arguments
Mus == {0, 1}
V0s == {-1, 0, 1}
Shapes == (-2..MaxShape) \cup {BigShape}
Scales == 0..MaxScale

\* arguments of rand, pdf and logpdf
Ns == 0..MaxN
Xs == {0, 1}
Sig2s == -1..MaxSig2

\* samples the Inverse-Gamma and the Normal sampler may return
SigDraws == -1..MaxDraw
MuDraws == {0, 1}

\* constructor arguments of the wrapper classes, points of evaluation
ParamVals == 1..MaxParam
Points == 0..MaxPoint

None == [k |-> "none"]

(* ---------------------------------------------------------------------- *)
(* Python values                                                          *)
(* ---------------------------------------------------------------------- *)
\* an exception leaving the operation
Raise(e) == [k |-> "raise", e |-> e]

IsRaise(v) == v.k = "raise"

\* np.inf
Inf == [k |-> "inf", s |-> 1]

RECURSIVE Gcd(_, _)
Gcd(a, b) == IF b = 0 THEN a ELSE Gcd(b, a % b)

Abs(a) == IF a < 0 THEN -a ELSE a

\* a finite float: the exact value (p / q) * 2^e2 * 10^e10, q > 0
Flt(p, q, e2, e10) == [k |-> "num", p |-> p, q |-> q, e2 |-> e2, e10 |-> e10]

\* the exact quotient a / b as a reduced fraction with positive denominator
Quot(a, b) ==
    LET g == Gcd(Abs(a), Abs(b))
        s == IF b < 0 THEN -1 ELSE 1
    IN Flt((s * a) \div g, (s * b) \div g, 0, 0)

\* Python float division: a zero divisor raises ZeroDivisionError
PyDiv(a, b) == IF b = 0 THEN Raise("ZeroDivisionError") ELSE Quot(a, b)

\* the float holding the integer a
Num(a) == Quot(a, 1)

\* float * float
Mul(a, b) ==
    LET r == Quot(a.p * b.p, a.q * b.q)
    IN IF r.p = 0 THEN Num(0) ELSE Flt(r.p, r.q, a.e2 + b.e2, a.e10 + b.e10)

\* math.sqrt: a negative argument raises ValueError
PySqrt(a) == IF a.p < 0 THEN Raise("ValueError") ELSE [k |-> "sqrt", of |-> a]

\* a tuple (a, b)
Pair(a, b) == [k |-> "pair", a |-> a, b |-> b]

(* ---------------------------------------------------------------------- *)
(* NormalInverseGamma                                                     *)
(* ---------------------------------------------------------------------- *)
NIG_str == "Normal(mu=%.5f, sigma=%.5f, alpha=%.5f, beta=%.5f)"

\* __init__ with shape and scale stored in each other's place
NIG__init__swapped(mu, v0, shape, scale) ==
    [mu |-> mu, v0 |-> v0, shape |-> scale, scale |-> shape, _str |-> NIG_str]

\* NormalInverseGamma.__init__
NIG__init__(mu, v0, shape, scale) ==
    [mu |-> mu, v0 |-> v0, shape |-> shape, scale |-> scale, _str |-> NIG_str]

\* mode dividing by shape - 1 as mean does
mode_minus(s) ==
    LET sig2 == PyDiv(s.scale, s.shape - 1)
    IN IF IsRaise(sig2) THEN sig2 ELSE Pair(s.mu, sig2)

\* NormalInverseGamma.mode (property)
mode(s) ==
    LET sig2 == PyDiv(s.scale, s.shape + 1)
    IN IF IsRaise(sig2) THEN sig2 ELSE Pair(s.mu, sig2)

\* mean with the guard shape >= 1
mean_ge(s) ==
    LET sig2 == IF s.shape >= 1 THEN PyDiv(s.scale, s.shape - 1) ELSE Inf
    IN IF IsRaise(sig2) THEN sig2 ELSE Pair(s.mu, sig2)

\* NormalInverseGamma.mean (property)
mean(s) ==
    LET sig2 == IF s.shape > 1 THEN PyDiv(s.scale, s.shape - 1) ELSE Inf
    IN IF IsRaise(sig2) THEN sig2 ELSE Pair(s.mu, sig2)

(* ---------------------------------------------------------------------- *)
(* Double-precision values of pdf and logpdf.  A value is nan, a signed   *)
(* infinity, zero, a finite product held by its sign and the natural log  *)
(* of its magnitude ("fin"), or a finite sum held by its value ("lin");   *)
(* logs and sums are in thousandths.                                      *)
(* ---------------------------------------------------------------------- *)
NaN == [k |-> "nan"]

NInf == [k |-> "inf", s |-> -1]

Zero == [k |-> "zero"]

Fin(s, l) == [k |-> "fin", s |-> s, l |-> l]

Lin(v) == [k |-> "lin", v |-> v]

\* log of the largest double, and of the smallest positive one
LogMax == 709782
LogMin == -745133

\* 1000 * log(k), k = 1..8  (math.log, np.log)
LnTab == <<0, 693, 1099, 1386, 1609, 1792, 1946, 2079>>

Ln(a) == LnTab[a]

\* 1000 * log(2 * pi)
Ln2Pi == 1838

\* 1000 * gammaln(172)
LnGammaBig == 711715

\* scipy.special.gammaln at a positive integer: log((sh - 1)!)
RECURSIVE LnFact(_)
LnFact(a) == IF a <= 1 THEN 0 ELSE Ln(a) + LnFact(a - 1)

gammaln(sh) ==
    IF sh <= 0 THEN Inf
    ELSE IF sh = BigShape THEN Lin(LnGammaBig)
    ELSE Lin(LnFact(sh - 1))

\* scipy.special.gamma; gp is what it returns at a pole (inf or nan); the
\* result overflows to inf above 171.62
gamma(sh, gp) ==
    IF sh <= 0 THEN gp
    ELSE IF sh > GammaMax THEN Inf
    ELSE Fin(1, gammaln(sh).v)

\* a finite product after rounding to the range of a double (numpy)
Rng(s, l) ==
    IF l > LogMax THEN [k |-> "inf", s |-> s]
    ELSE IF l < LogMin THEN Zero
    ELSE Fin(s, l)

\* base ** e on Python floats, e an integral float
PyPow(base, e) ==
    IF base = 0
    THEN IF e < 0 THEN Raise("ZeroDivisionError")
         ELSE IF e = 0 THEN Fin(1, 0) ELSE Zero
    ELSE LET l == e * Ln(Abs(base))
             s == IF base < 0 /\ e % 2 = 1 THEN -1 ELSE 1
         IN IF l > LogMax THEN Raise("OverflowError") ELSE Rng(s, l)

\* base ** e on a numpy array
NpPow(base, e) ==
    IF base = 0
    THEN IF e < 0 THEN Inf ELSE IF e = 0 THEN Fin(1, 0) ELSE Zero
    ELSE Rng(IF base < 0 /\ e % 2 = 1 THEN -1 ELSE 1, e * Ln(Abs(base)))

\* a * b on numpy floats
NpMul(a, b) ==
    IF IsRaise(a) THEN a
    ELSE IF IsRaise(b) THEN b
    ELSE IF a.k = "nan" \/ b.k = "nan" THEN NaN
    ELSE IF a.k = "zero" \/ b.k = "zero"
         THEN IF a.k = "inf" \/ b.k = "inf" THEN NaN ELSE Zero
    ELSE IF a.k = "inf" \/ b.k = "inf" THEN [k |-> "inf", s |-> a.s * b.s]
    ELSE Rng(a.s * b.s, a.l + b.l)

\* a / b on numpy floats: a zero divisor gives inf or nan, never an error
NpDiv(a, b) ==
    IF IsRaise(a) THEN a
    ELSE IF IsRaise(b) THEN b
    ELSE IF a.k = "nan" \/ b.k = "nan" THEN NaN
    ELSE IF b.k = "zero"
         THEN IF a.k = "zero" THEN NaN ELSE [k |-> "inf", s |-> a.s]
    ELSE IF b.k = "inf"
         THEN IF a.k = "inf" THEN NaN ELSE Zero
    ELSE IF a.k = "zero" THEN Zero
    ELSE IF a.k = "inf" THEN [k |-> "inf", s |-> a.s * b.s]
    ELSE Rng(a.s * b.s, a.l - b.l)

\* math.sqrt(v * 2*pi)
SqrtV2Pi(v) ==
    IF v < 0 THEN Raise("ValueError")
    ELSE IF v = 0 THEN Zero
    ELSE Fin(1, (Ln(v) + Ln2Pi) \div 2)

\* np.sqrt(sig2)
NpSqrt(a) ==
    IF a < 0 THEN NaN ELSE IF a = 0 THEN Zero ELSE Fin(1, Ln(a) \div 2)

\* math.log: a non-positive argument raises ValueError
PyLog(a) == IF a <= 0 THEN Raise("ValueError") ELSE Lin(Ln(a))

\* np.log(sig2)
NpLog(a) == IF a < 0 THEN NaN ELSE IF a = 0 THEN NInf ELSE Lin(Ln(a))

\* c * a, c an integer and a a sum
LScale(c, a) ==
    IF IsRaise(a) THEN a
    ELSE IF a.k = "nan" THEN NaN
    ELSE IF a.k = "inf"
         THEN IF c = 0 THEN NaN
              ELSE [k |-> "inf", s |-> IF c < 0 THEN -a.s ELSE a.s]
    ELSE Lin(c * a.v)

\* 0.5 * a
LHalf(a) ==
    IF IsRaise(a) \/ a.k \in {"nan", "inf"} THEN a ELSE Lin(a.v \div 2)

\* a - b on sums
LSub(a, b) ==
    IF IsRaise(a) THEN a
    ELSE IF IsRaise(b) THEN b
    ELSE IF a.k = "nan" \/ b.k = "nan" THEN NaN
    ELSE IF a.k = "inf"
         THEN IF b.k = "inf" /\ b.s = a.s THEN NaN ELSE a
    ELSE IF b.k = "inf" THEN [k |-> "inf", s |-> -b.s]
    ELSE Lin(a.v - b.v)

LAdd(a, b) == LSub(a, LScale(-1, b))

\* sc / sig2; sig2 a Python float (ty = "float") or a numpy array
ScOverSig2(sc, sig2, ty) ==
    IF sig2 # 0 THEN Lin((1000 * sc) \div sig2)
    ELSE IF ty = "float" THEN Raise("ZeroDivisionError")
    ELSE IF sc = 0 THEN NaN ELSE Inf

\* 0.5 / (sig2 * v) * (x - m) ** 2
Quad(sig2, v, x, m, ty) ==
    LET d == sig2 * v
        h == IF d # 0 THEN Lin(500 \div d)
             ELSE IF ty = "float" THEN Raise("ZeroDivisionError")
             ELSE [k |-> "inf",
                   s |-> IF (sig2 = 0 /\ v < 0) \/ (v = 0 /\ sig2 < 0)
                         THEN -1 ELSE 1]
    IN LScale((x - m) * (x - m), h)

\* np.exp
NpExp(a) ==
    IF IsRaise(a) THEN a
    ELSE IF a.k = "nan" THEN NaN
    ELSE IF a.k = "inf" THEN IF a.s > 0 THEN Inf ELSE Zero
    ELSE Rng(1, a.v)

\* the natural log of a value of pdf
LogOf(a) ==
    IF IsRaise(a) THEN a
    ELSE IF a.k = "nan" THEN NaN
    ELSE IF a.k = "zero" THEN NInf
    ELSE IF a.k = "inf" THEN IF a.s > 0 THEN Inf ELSE NaN
    ELSE IF a.s < 0 THEN NaN ELSE Lin(a.l)

\* NormalInverseGamma.pdf
pdf(s, x, sig2, ty, gp) ==
    LET m == s.mu
        v == s.v0
        sh == s.shape
        sc == s.scale
        Zinv == NpDiv(NpDiv(PyPow(sc, sh), gamma(sh, gp)), SqrtV2Pi(v))
        pw == IF ty = "float" THEN PyPow(sig2, sh + 1) ELSE NpPow(sig2, sh + 1)
    IN NpMul(NpDiv(Zinv, NpMul(NpSqrt(sig2), pw)),
             NpExp(LSub(LScale(-1, ScOverSig2(sc, sig2, ty)),
                        Quad(sig2, v, x, m, ty))))

\* NormalInverseGamma.logpdf
logpdf(s, x, sig2, ty) ==
    LET m == s.mu
        v == s.v0
        sh == s.shape
        sc == s.scale
        lZinv == LSub(LSub(LScale(sh, PyLog(sc)), gammaln(sh)),
                      LHalf(LAdd(PyLog(v), Lin(Ln2Pi))))
    IN LSub(LSub(LSub(LSub(lZinv, LHalf(NpLog(sig2))),
                      LScale(sh + 1, NpLog(sig2))),
                 ScOverSig2(sc, sig2, ty)),
            Quad(sig2, v, x, m, ty))

\* np.finfo(float).resolution = 10 ** -15
resolution == Flt(1, 1, 0, -15)

\* machine epsilon of a double, 2 ** -52 (julia eps())
eps == Flt(1, 1, -52, 0)

\* one call of a sampler: its distribution, its two parameters, its sample
Call(f, a, b, r) == [f |-> f, a |-> a, b |-> b, r |-> r]

\* _rand1 clamping only a negative draw
_rand1_lt(s, ig, z) ==
    LET drawn == Num(ig)
        sig2 == IF drawn.p < 0 THEN resolution ELSE drawn
        std == PySqrt(Mul(sig2, Num(s.v0)))
        c1 == Call("InverseGamma", s.shape, s.scale, ig)
    IN IF IsRaise(std)
       THEN [res |-> std, calls |-> <<c1>>]
       ELSE [res |-> Pair(z, sig2),
             calls |-> <<c1, Call("Normal", s.mu, std, z)>>]

\* _rand1 drawing the mean first, with the variance scale for sig2
_rand1_swapped(s, ig, z) ==
    LET drawn == Num(ig)
        sig2 == IF drawn.p <= 0 THEN resolution ELSE drawn
        std == PySqrt(Mul(Num(s.scale), Num(s.v0)))
        c1 == Call("InverseGamma", s.shape, s.scale, ig)
    IN IF IsRaise(std)
       THEN [res |-> std, calls |-> <<>>]
       ELSE [res |-> Pair(z, sig2),
             calls |-> <<Call("Normal", s.mu, std, z), c1>>]

\* NormalInverseGamma._rand1, the Inverse-Gamma sampler returning ig and the
\* Normal sampler returning z; calls lists the sampler calls it made
_rand1(s, ig, z) ==
    LET drawn == Num(ig)
        sig2 == IF drawn.p <= 0 THEN resolution ELSE drawn
        std == PySqrt(Mul(sig2, Num(s.v0)))
        c1 == Call("InverseGamma", s.shape, s.scale, ig)
    IN IF IsRaise(std)
       THEN [res |-> std, calls |-> <<c1>>]
       ELSE [res |-> Pair(z, sig2),
             calls |-> <<c1, Call("Normal", s.mu, std, z)>>]

\* a row of np.empty((n, 2)) that has not been written
Uninit == [k |-> "uninit"]

\* np.empty((n, 2))
np_empty(nn) == [j \in 1..nn |-> Uninit]

(* ---------------------------------------------------------------------- *)
(* The state machine of one NormalInverseGamma object                     *)
(* ---------------------------------------------------------------------- *)
Init ==
    /\ \E mu \in Mus, v0 \in V0s, shape \in Shapes, scale \in Scales :
          /\ args = [mu |-> mu, v0 |-> v0, shape |-> shape, scale |-> scale]
          /\ self = NIG__init__(mu, v0, shape, scale)
    /\ pc = "idle"
    /\ n = 0
    /\ i = 0
    /\ out = <<>>
    /\ log = <<>>
    /\ op = "init"
    /\ inp = None
    /\ ret = None
    /\ w = None
    /\ wret = None

\* a call of pdf(x, sig2)
Pdf ==
    /\ pc = "idle"
    /\ \E x \in Xs, sig2 \in Sig2s, ty \in {"float", "ndarray"},
          gp \in {Inf, NaN} :
          /\ inp' = [x |-> x, sig2 |-> sig2, ty |-> ty]
          /\ ret' = pdf(self, x, sig2, ty, gp)
    /\ op' = "pdf"
    /\ log' = <<>>
    /\ UNCHANGED <<args, self, pc, n, i, out, w, wret>>

\* a call of logpdf(x, sig2)
Logpdf ==
    /\ pc = "idle"
    /\ \E x \in Xs, sig2 \in Sig2s, ty \in {"float", "ndarray"} :
          /\ inp' = [x |-> x, sig2 |-> sig2, ty |-> ty]
          /\ ret' = logpdf(self, x, sig2, ty)
    /\ op' = "logpdf"
    /\ log' = <<>>
    /\ UNCHANGED <<args, self, pc, n, i, out, w, wret>>

\* reading the mode property
Mode ==
    /\ pc = "idle"
    /\ op' = "mode"
    /\ inp' = None
    /\ ret' = mode(self)
    /\ log' = <<>>
    /\ UNCHANGED <<args, self, pc, n, i, out, w, wret>>

\* reading the mean property
Mean ==
    /\ pc = "idle"
    /\ op' = "mean"
    /\ inp' = None
    /\ ret' = mean(self)
    /\ log' = <<>>
    /\ UNCHANGED <<args, self, pc, n, i, out, w, wret>>

\* rand(1): one call of _rand1, whose result is returned as it is
RandOne ==
    /\ pc = "idle"
    /\ \E ig \in SigDraws, z \in MuDraws :
          LET r == _rand1(self, ig, z)
          IN /\ ret' = r.res
             /\ log' = r.calls
    /\ op' = "rand"
    /\ inp' = [n |-> 1]
    /\ UNCHANGED <<args, self, pc, n, i, out, w, wret>>

\* rand(n), n # 1: allocate out and enter the loop
RandCall ==
    /\ pc = "idle"
    /\ \E nn \in Ns \ {1} :
          /\ n' = nn
          /\ out' = np_empty(nn)
          /\ inp' = [n |-> nn]
    /\ pc' = "loop"
    /\ i' = 0
    /\ log' = <<>>
    /\ op' = "rand"
    /\ ret' = None
    /\ UNCHANGED <<args, self, w, wret>>

\* one iteration of the loop of rand: out[i] = self._rand1()
RandIter ==
    /\ pc = "loop"
    /\ i < n
    /\ \E ig \in SigDraws, z \in MuDraws :
          LET r == _rand1(self, ig, z)
          IN /\ log' = log \o r.calls
             /\ IF IsRaise(r.res)
                THEN /\ ret' = r.res
                     /\ pc' = "idle"
                     /\ n' = 0
                     /\ i' = 0
                     /\ out' = <<>>
                ELSE /\ out' = [out EXCEPT ![i + 1] = r.res]
                     /\ i' = i + 1
                     /\ UNCHANGED <<ret, pc, n>>
    /\ UNCHANGED <<args, self, op, inp, w, wret>>

\* the loop of rand is over: return out
RandReturn ==
    /\ pc = "loop"
    /\ i >= n
    /\ ret' = [k |-> "array", rows |-> out]
    /\ pc' = "idle"
    /\ n' = 0
    /\ i' = 0
    /\ out' = <<>>
    /\ UNCHANGED <<args, self, log, op, inp, w, wret>>

Next == Pdf \/ Logpdf \/ Mode \/ Mean \/ RandOne \/ RandCall \/ RandIter \/ RandReturn

Spec == Init /\ [][Next]_vars

(* ---------------------------------------------------------------------- *)
(* The scipy-backed wrapper classes                                       *)
(* ---------------------------------------------------------------------- *)
\* a frozen scipy.stats distribution: its name, shape arguments, loc, scale
Frozen(name, shapes, loc, scale) ==
    [name |-> name, shapes |-> shapes, loc |-> loc, scale |-> scale]

\* a Python tuple, and a bare value that is no tuple
Tuple(items) == [k |-> "tuple", items |-> items]

Scalar(v) == [k |-> "scalar", v |-> v]

\* math.exp(mu), kept as the exponent
Exp(mu) == [exp |-> mu]

T__init__(df) == [cls |-> "T", df |-> df, dist |-> Frozen("t", <<df>>, 0, 1)]

T_params(s) == Tuple(<<s.df>>)

F__init__(d1, d2) ==
    [cls |-> "F", d1 |-> d1, d2 |-> d2, dist |-> Frozen("f", <<d1, d2>>, 0, 1)]

F_params(s) == Tuple(<<s.d1, s.d2>>)

Beta__init__(alpha, beta) ==
    [cls |-> "Beta", alpha |-> alpha, beta |-> beta,
     dist |-> Frozen("beta", <<alpha, beta>>, 0, 1)]

Beta_params(s) == Tuple(<<s.alpha, s.beta>>)

LogNormal__init__(mu, sigma) ==
    [cls |-> "LogNormal", mu |-> mu, sigma |-> sigma,
     dist |-> Frozen("lognorm", <<sigma>>, 0, Exp(mu))]

LogNormal_params(s) == Tuple(<<s.mu, s.sigma>>)

InverseGamma__init__(alpha, beta) ==
    [cls |-> "InverseGamma", alpha |-> alpha, beta |-> beta,
     dist |-> Frozen("invgamma", <<alpha>>, 0, beta)]

InverseGamma_params(s) == Tuple(<<s.alpha, s.beta>>)

Normal__init__(mu, sigma) ==
    [cls |-> "Normal", mu |-> mu, sigma |-> sigma,
     dist |-> Frozen("norm", <<>>, mu, sigma)]

Normal_params(s) == Tuple(<<s.mu, s.sigma>>)

Gamma__init__(alpha, beta) ==
    [cls |-> "Gamma", alpha |-> alpha, beta |-> beta,
     dist |-> Frozen("gamma", <<alpha>>, 0, beta)]

Gamma_params(s) == Tuple(<<s.alpha, s.beta>>)

Chisq__init__(k) ==
    [cls |-> "Chisq", k |-> k, dist |-> Frozen("chi2", <<k>>, 0, 1)]

\* return (self.k): parentheses without a comma make no tuple
Chisq_params(s) == Scalar(s.k)

Chi__init__(k) == [cls |-> "Chi", k |-> k, dist |-> Frozen("chi", <<k>>, 0, 1)]

Chi_params(s) == Scalar(s.k)

Uniform__init__(a, b) ==
    [cls |-> "Uniform", a |-> a, b |-> b,
     dist |-> Frozen("uniform", <<>>, a, b)]

Uniform_params(s) == Tuple(<<s.a, s.b>>)

\* the classes with one and with two constructor parameters
Classes1 == {"T", "Chisq", "Chi"}

Classes2 == {"F", "Beta", "LogNormal", "InverseGamma", "Normal", "Gamma",
             "Uniform"}

\* cls(*a)
Construct(cls, a) ==
    CASE cls = "T" -> T__init__(a[1])
      [] cls = "Chisq" -> Chisq__init__(a[1])
      [] cls = "Chi" -> Chi__init__(a[1])
      [] cls = "F" -> F__init__(a[1], a[2])
      [] cls = "Beta" -> Beta__init__(a[1], a[2])
      [] cls = "LogNormal" -> LogNormal__init__(a[1], a[2])
      [] cls = "InverseGamma" -> InverseGamma__init__(a[1], a[2])
      [] cls = "Normal" -> Normal__init__(a[1], a[2])
      [] cls = "Gamma" -> Gamma__init__(a[1], a[2])
      [] cls = "Uniform" -> Uniform__init__(a[1], a[2])

\* s.params
params(s) ==
    CASE s.cls = "T" -> T_params(s)
      [] s.cls = "Chisq" -> Chisq_params(s)
      [] s.cls = "Chi" -> Chi_params(s)
      [] s.cls = "F" -> F_params(s)
      [] s.cls = "Beta" -> Beta_params(s)
      [] s.cls = "LogNormal" -> LogNormal_params(s)
      [] s.cls = "InverseGamma" -> InverseGamma_params(s)
      [] s.cls = "Normal" -> Normal_params(s)
      [] s.cls = "Gamma" -> Gamma_params(s)
      [] s.cls = "Uniform" -> Uniform_params(s)

\* scipy.stats.uniform(loc, scale).support(): the interval [loc, loc + scale]
uniform_support(d) == [lo |-> d.loc, hi |-> d.loc + d.scale]

\* scipy.stats.uniform(loc, scale).pdf(x): 1 / scale on the support, else 0
uniform_pdf(d, x) ==
    IF d.loc <= x /\ x <= d.loc + d.scale THEN Quot(1, d.scale) ELSE Num(0)

InitW ==
    /\ \E cls \in Classes1 \cup Classes2 :
       \E a \in IF cls \in Classes1 THEN [1..1 -> ParamVals]
                                    ELSE [1..2 -> ParamVals] :
          /\ args = a
          /\ w = Construct(cls, a)
    /\ self = None
    /\ pc = "idle"
    /\ n = 0
    /\ i = 0
    /\ out = <<>>
    /\ log = <<>>
    /\ op = "init"
    /\ inp = None
    /\ ret = None
    /\ wret = None

\* reading the params property
Params ==
    /\ op' = "params"
    /\ inp' = None
    /\ wret' = params(w)
    /\ UNCHANGED <<args, self, pc, n, i, out, log, ret, w>>

\* the support of the distribution a Uniform delegates to
Support ==
    /\ w.cls = "Uniform"
    /\ op' = "support"
    /\ inp' = None
    /\ wret' = uniform_support(w.dist)
    /\ UNCHANGED <<args, self, pc, n, i, out, log, ret, w>>

\* the density at x of the distribution a Uniform delegates to
UniformPdf ==
    /\ w.cls = "Uniform"
    /\ \E x \in Points :
          /\ inp' = [x |-> x]
          /\ wret' = uniform_pdf(w.dist, x)
    /\ op' = "pdf"
    /\ UNCHANGED <<args, self, pc, n, i, out, log, ret, w>>

NextW == Params \/ Support \/ UniformPdf

SpecW == InitW /\ [][NextW]_vars

(* ---------------------------------------------------------------------- *)
(* Properties                                                             *)
(* ---------------------------------------------------------------------- *)
\* the parameters of a proper distribution: v0, shape, scale > 0
ValidParams == args.v0 > 0 /\ args.shape > 0 /\ args.scale > 0

\* the float f is exactly the quotient a / b
IsQuot(f, a, b) ==
    /\ f.k = "num"
    /\ f.e2 = 0
    /\ f.e10 = 0
    /\ f.q > 0
    /\ f.p * b = a * f.q

\* the float f is strictly positive
Positive(f) == f.k = "num" /\ f.p > 0 /\ f.q > 0

\* C1: mean returns (mu, scale/(shape-1)) when shape > 1 and (mu, +inf) for
\* every shape <= 1, shape = 1 included; it raises for no shape.
C1_MeanValue ==
    op = "mean" =>
        /\ ret.k = "pair"
        /\ ret.a = args.mu
        /\ IF args.shape > 1
           THEN IsQuot(ret.b, args.scale, args.shape - 1)
           ELSE ret.b = [k |-> "inf", s |-> 1]

\* the mean of a distribution with shape = 1 exactly has been read
C1_Witness == op = "mean" /\ args.shape = 1 /\ ret.k = "pair" /\ ret.b.k = "inf"

\* C2: rand(n), n > 1, returns exactly n pairs whose second components are
\* all strictly positive, whatever the Inverse-Gamma sampler returned
\* (positive, zero or negative), on every invocation; with v0 >= 0 every
\* such invocation ends with that array.
C2_RandPositive ==
    (op = "rand" /\ pc = "idle" /\ inp.n > 1) =>
        /\ ret.k = "array" =>
              /\ DOMAIN ret.rows = 1..inp.n
              /\ \A j \in 1..inp.n :
                    ret.rows[j].k = "pair" /\ Positive(ret.rows[j].b)
        /\ args.v0 >= 0 => ret.k = "array"

\* rand(n), n > 1, has returned after the sampler gave a zero and a negative
\* variance
C2_Witness ==
    /\ op = "rand"
    /\ pc = "idle"
    /\ inp.n > 1
    /\ ret.k = "array"
    /\ \E j \in 1..Len(log) : log[j].f = "InverseGamma" /\ log[j].r = 0
    /\ \E j \in 1..Len(log) : log[j].f = "InverseGamma" /\ log[j].r < 0

\* C3: for every non-positive sig2 (scalar or array) pdf and logpdf complete
\* with an infinity or a NaN and never end in a raised exception (stated for
\* proper parameters v0, shape, scale > 0).
C3_NoRaise ==
    (op \in {"pdf", "logpdf"} /\ ValidParams /\ inp.sig2 <= 0) =>
        ret.k \in {"inf", "nan"}

\* C4: the constructor stores mu, v0, shape, scale as given, without
\* validating them, and no operation writes to them or adds an attribute
\* (call history, cached result) to the object.
C4_ParamsFrozen ==
    /\ self.mu = args.mu
    /\ self.v0 = args.v0
    /\ self.shape = args.shape
    /\ self.scale = args.scale
    /\ DOMAIN self = {"mu", "v0", "shape", "scale", "_str"}

\* a rand(n) call has returned on an object whose shape and scale differ and
\* whose v0 is not positive
C4_Witness ==
    /\ op = "rand"
    /\ pc = "idle"
    /\ ret.k = "array"
    /\ args.v0 = 0
    /\ args.shape = -2
    /\ args.scale = 1
    /\ self.shape = -2

\* C5: for v0, shape, scale > 0, every sig2 > 0 and every x, logpdf(x, sig2)
\* equals log(pdf(x, sig2)) within tolerance: both are finite and differ by
\* at most one thousandth.
C5_LogpdfIsLogOfPdf ==
    (op = "pdf" /\ ValidParams /\ inp.sig2 > 0) =>
        LET l == logpdf(self, inp.x, inp.sig2, inp.ty)
            p == LogOf(ret)
        IN /\ l.k = "lin"
           /\ p.k = "lin"
           /\ Abs(l.v - p.v) <= 1

\* C6: mode returns exactly (mu, scale/(shape+1)) for every shape > -1, the
\* first component being the stored mu whatever v0 is.
C6_ModeValue ==
    (op = "mode" /\ args.shape > -1) =>
        /\ ret.k = "pair"
        /\ ret.a = args.mu
        /\ IsQuot(ret.b, args.scale, args.shape + 1)

\* the mode of a distribution with shape 2, scale 1 and mu 1 has been read
C6_Witness ==
    /\ op = "mode"
    /\ args.shape = 2
    /\ args.scale = 1
    /\ args.mu = 1
    /\ ret.k = "pair"
    /\ ret.b.q = 3

\* C7: for a < b, Uniform(a, b) delegates to the uniform distribution on
\* a <= x <= b with density 1/(b-a): a is its lower and b its upper bound.
C7_UniformBounds ==
    (w.cls = "Uniform" /\ w.a < w.b) =>
        /\ op = "support" => wret = [lo |-> w.a, hi |-> w.b]
        /\ op = "pdf" =>
              wret = IF w.a <= inp.x /\ inp.x <= w.b THEN Quot(1, w.b - w.a)
                                                     ELSE Num(0)

\* C8: in a single draw a variance <= 0 is replaced by machine epsilon, a
\* variance > 0 is kept, and the resulting value is both the variance behind
\* the Normal draw and the second component of the returned pair (stated
\* for proper parameters v0, shape, scale > 0).
C8_ClampToEps ==
    (op = "rand" /\ pc = "idle" /\ inp.n = 1 /\ ret.k = "pair"
       /\ ValidParams) =>
        /\ ret.b = IF log[1].r <= 0 THEN eps ELSE Num(log[1].r)
        /\ log[2].b = PySqrt(Mul(ret.b, Num(args.v0)))

\* the sampler calls 2j-1 and 2j of the log are draw j: InverseGamma(shape,
\* scale), then Normal(mu, sqrt(sig2 * v0)), and pair holds their outcome
IsDraw(j, pair) ==
    /\ log[2 * j - 1].f = "InverseGamma"
    /\ log[2 * j - 1].a = args.shape
    /\ log[2 * j - 1].b = args.scale
    /\ log[2 * j].f = "Normal"
    /\ log[2 * j].a = args.mu
    /\ pair.k = "pair"
    /\ log[2 * j].b = PySqrt(Mul(pair.b, Num(args.v0)))
    /\ log[2 * j - 1].r > 0 => pair.b = Num(log[2 * j - 1].r)
    /\ pair.a = log[2 * j].r

\* C9: every draw samples the variance from InverseGamma(shape, scale) first
\* and then the mean from Normal(mu, sqrt(sig2 * v0)) with the variance of
\* that same draw; rand(1) makes one draw and returns its pair; rand(n),
\* n > 1, makes n draws (2n sampler calls, alternating) and returns the n
\* pairs in draw order, the i-th pair holding the i-th draw.
C9_DrawOrder ==
    /\ (op = "rand" /\ inp.n = 1 /\ ret.k = "pair") =>
          Len(log) = 2 /\ IsDraw(1, ret)
    /\ pc = "loop" =>
          /\ Len(log) = 2 * i
          /\ \A j \in 1..i : IsDraw(j, out[j])
          /\ \A j \in (i + 1)..n : out[j] = Uninit
    /\ (op = "rand" /\ inp.n > 1 /\ ret.k = "array") =>
          /\ Len(log) = 2 * inp.n
          /\ DOMAIN ret.rows = 1..inp.n
          /\ \A j \in 1..inp.n : IsDraw(j, ret.rows[j])

\* rand(2) has returned two pairs from draws that differ
C9_Witness ==
    /\ op = "rand"
    /\ pc = "idle"
    /\ ret.k = "array"
    /\ inp.n = 2
    /\ log[1].r = -1
    /\ log[3].r = 1
    /\ ret.rows[1].b # ret.rows[2].b
    /\ ret.rows[1].a # ret.rows[2].a

\* C10: params of every wrapper class is a tuple of exactly the constructor
\* arguments in constructor order (length 1 for T, Chisq, Chi), and reading
\* it leaves the stored parameters alone.
C10_ParamsTuple ==
    op = "params" =>
        /\ wret = [k |-> "tuple", items |-> args]
        /\ w = Construct(w.cls, args)

====
